---- MODULE Spec2Model ----
(***************************************************************************)
(* Model of src/verify-boc.ts: the BOC transaction verifier.               *)
(*                                                                         *)
(* main() parses the arguments, runs verifyBoc(config) and exits with      *)
(* status 0 when it returned true and 1 otherwise.  verifyBoc decodes the  *)
(* BOC, requires an external-in root message, computes its TEP-467         *)
(* normalized hash, fetches the transactions of the destination address    *)
(* with one call, and scans them in list order for the first external-in   *)
(* inbound message with the same normalized hash.  Every exception is      *)
(* caught by the single try/catch of verifyBoc and turned into `false`.    *)
(*                                                                         *)
(* Console output is kept only as far as it tells the terminal paths       *)
(* apart (variable report); config.verbose and config.limit only change    *)
(* what is printed or what the collaborator is asked for and are left out. *)
(* A cell is modelled as its bit tokens and its references; the hash of a  *)
(* cell is modelled as an injective digest, that is by the cell itself.    *)
(***************************************************************************)
EXTENDS Integers, Sequences, FiniteSets, TLC

\* ------------------------------------------------------------- bounds
MaxTx == 3          \* longest transaction list the fetch returns
MaxFee == 1         \* largest importFee of a message

\* ------------------------------------------------------------- data
NoValue == "none"
Addrs == {"A", "B"}                 \* internal (account) addresses
ExtAddrs == {"E1"}                  \* external source addresses
Inits == {"I1"}                     \* StateInit values
Bodies == {"B1", "B2"}              \* body cells

\* An absent optional message (tx.inMessage undefined)
NoMessage ==
    [type |-> "absent", src |-> NoValue, dest |-> NoValue, importFee |-> 0,
     init |-> NoValue, body |-> NoValue]

\* Message with an external-in header (CommonMessageInfoExternalIn)
ExtInMsg(s, d, f, st, b) ==
    [type |-> "external-in", src |-> s, dest |-> d, importFee |-> f,
     init |-> st, body |-> b]

\* Message with another header; only the fields verifyBoc reads are kept
OtherMsg(t, d, st, b) ==
    [type |-> t, src |-> NoValue, dest |-> d, importFee |-> 0,
     init |-> st, body |-> b]

ExtInMessages ==
    {ExtInMsg(s, d, f, st, b) : s \in ExtAddrs \cup {NoValue}, d \in Addrs,
        f \in 0..MaxFee, st \in Inits \cup {NoValue}, b \in Bodies}

OtherMessages ==
    {OtherMsg("internal", d, NoValue, "B1") : d \in Addrs}
        \cup {OtherMsg("external-out", "A", NoValue, "B1")}

Messages == ExtInMessages \cup OtherMessages

\* What config.boc can be: not a BOC at all, a BOC whose root is not a
\* message, or a BOC holding a message.
Bocs ==
    {[kind |-> "malformed", msg |-> NoMessage],
     [kind |-> "badroot", msg |-> NoMessage]}
        \cup {[kind |-> "message", msg |-> m] : m \in Messages}

\* Inbound messages of fetched transactions (tx.inMessage, optional): none,
\* an internal message, or an external-in message as submitted or as
\* relayed with a sender, a fee and an init
InMessages ==
    {NoMessage, OtherMsg("internal", "A", NoValue, "B1"),
     ExtInMsg(NoValue, "A", 0, NoValue, "B1"),
     ExtInMsg("E1", "A", MaxFee, "I1", "B1"),
     ExtInMsg(NoValue, "A", 0, NoValue, "B2"),
     ExtInMsg("E1", "B", MaxFee, "I1", "B1")}

Transaction(m) == [inMessage |-> m]

TxLists ==
    UNION {[1..n -> {Transaction(m) : m \in InMessages}] : n \in 0..MaxTx}

\* ------------------------------------------------------------- TEP-467
\* storeAddress: addr_none$00, addr_extern$01, addr_std$10 + anycast bit
StoreAddress(a) ==
    IF a = NoValue THEN <<0, 0>>
    ELSE IF a \in ExtAddrs THEN <<0, 1, a>>
    ELSE <<1, 0, 0, a>>

\* storeCoins: VarUInteger 16, a length nibble and then the value bytes
StoreCoins(f) == IF f = 0 THEN <<0>> ELSE <<1, f>>

\* Normalization without clearing the sender
NormalizeKeepSrc(message) ==
    [message EXCEPT !.importFee = 0, !.init = NoValue]

\* lines 39-49: info with src cleared and importFee 0, init null
Normalize(message) ==
    [message EXCEPT !.src = NoValue, !.importFee = 0, !.init = NoValue]

\* storeMessage(m, {forceRef: true}) into a fresh cell, for external-in:
\* ext_in_msg_info$10 src dest import_fee, the init bit (and the init as a
\* reference), then the body always as a reference.
StoreMessage(m) ==
    [bits |-> <<1, 0>> \o StoreAddress(m.src) \o StoreAddress(m.dest)
                \o StoreCoins(m.importFee)
                \o (IF m.init = NoValue THEN <<0>> ELSE <<1, 1>>)
                \o <<1>>,
     refs |-> (IF m.init = NoValue THEN <<>> ELSE <<m.init>>) \o <<m.body>>]

\* Cell.hash(): the representation hash, injective on cells
CellHash(c) == c

\* A hash that was never computed
NoHash == [bits |-> <<>>, refs |-> <<>>]
NoError == <<"", "">>

\* line 36
MustBeExtInError(t) == <<"Message must be external-in, got", t>>

\* getNormalizedExtMessageHash: the hash, or the error it throws
getNormalizedExtMessageHash(message) ==
    IF message.type # "external-in"
    THEN [ok |-> FALSE, hash |-> NoHash, err |-> MustBeExtInError(message.type)]
    ELSE [ok |-> TRUE, hash |-> CellHash(StoreMessage(Normalize(message))),
          err |-> NoError]

\* Error message that leaves the variant out
ExpectedExtInErrorBare(t) == <<"Expected external-in message", "">>

\* line 126
ExpectedExtInError(t) == <<"Expected external-in message, got", t>>

\* Position counted from zero
PositionOfZeroBased(i) == i

\* line 186: the position printed for loop index i
PositionOf(i) == i + 1

\* Skip test that lets a present message of any type through
SkipTxAbsentOnly(tx) == tx.inMessage = NoMessage

\* line 176: tx.inMessage?.info.type !== 'external-in'
SkipTx(tx) ==
    IF tx.inMessage = NoMessage THEN TRUE
    ELSE tx.inMessage.type # "external-in"

\* ------------------------------------------------------------- state
VARIABLES
    boc,              \* config.boc, classified by what decoding it gives
    pc,               \* where verifyBoc is
    message,          \* line 123
    targetAddress,    \* line 129
    normalizedHash,   \* line 135
    transactions,     \* line 155
    i,                \* loop index, line 169
    txHash,           \* line 181, of the last candidate hashed
    report,           \* the console line that ends the run
    ret,              \* value verifyBoc resolves to, "pending" before
    exitCode,         \* process.exit status, -1 while running
    fetchCalls,       \* calls of client.getTransactions
    fetchStatus,      \* "none", "ok" or "failed"
    targetHashCalls,  \* calls of getNormalizedExtMessageHash(message)
    examined,         \* loop iterations entered
    hashed            \* positions whose inMessage was hashed

vars == <<boc, pc, message, targetAddress, normalizedHash, transactions, i,
          txHash, report, ret, exitCode, fetchCalls, fetchStatus,
          targetHashCalls, examined, hashed>>

NoReport == [kind |-> "none", position |-> 0, msg |-> NoError]

Init ==
    /\ boc \in Bocs
    /\ pc = "Start"
    /\ message = NoMessage
    /\ targetAddress = NoValue
    /\ normalizedHash = NoHash
    /\ transactions = <<>>
    /\ i = 0
    /\ txHash = NoHash
    /\ report = NoReport
    /\ ret = "pending"
    /\ exitCode = -1
    /\ fetchCalls = 0
    /\ fetchStatus = "none"
    /\ targetHashCalls = 0
    /\ examined = 0
    /\ hashed = {}

\* lines 215-221: the catch block prints the error and returns false
Throw(msg) ==
    /\ pc' = "Error"
    /\ report' = [kind |-> "error", position |-> 0, msg |-> msg]
    /\ ret' = "false"

\* Decoding that falls back to an empty message instead of throwing
ParseBocLenient ==
    /\ pc = "Start"
    /\ message' = IF boc.kind = "message" THEN boc.msg
                  ELSE ExtInMsg(NoValue, "A", 0, NoValue, "B1")
    /\ pc' = "Decoded"
    /\ UNCHANGED <<boc, targetAddress, normalizedHash, transactions, i,
                   txHash, report, ret, exitCode, fetchCalls, fetchStatus,
                   targetHashCalls, examined, hashed>>

\* lines 122-123: Cell.fromBase64 and loadMessage
ParseBoc ==
    /\ pc = "Start"
    /\ IF boc.kind = "malformed"
       THEN Throw(<<"Cell.fromBase64 failed", "">>) /\ UNCHANGED message
       ELSE IF boc.kind = "badroot"
       THEN Throw(<<"loadMessage failed", "">>) /\ UNCHANGED message
       ELSE /\ message' = boc.msg
            /\ pc' = "Decoded"
            /\ UNCHANGED <<report, ret>>
    /\ UNCHANGED <<boc, targetAddress, normalizedHash, transactions, i,
                   txHash, exitCode, fetchCalls, fetchStatus,
                   targetHashCalls, examined, hashed>>

\* lines 125-136: the type check, the target address, the target hash
ComputeTargetHash ==
    /\ pc = "Decoded"
    /\ IF message.type # "external-in"
       THEN /\ Throw(ExpectedExtInError(message.type))
            /\ UNCHANGED <<targetAddress, normalizedHash, targetHashCalls>>
       ELSE LET r == getNormalizedExtMessageHash(message) IN
            /\ targetAddress' = message.dest
            /\ targetHashCalls' = targetHashCalls + 1
            /\ IF r.ok
               THEN /\ normalizedHash' = r.hash
                    /\ pc' = "HashComputed"
                    /\ UNCHANGED <<report, ret>>
               ELSE Throw(r.err) /\ UNCHANGED normalizedHash
    /\ UNCHANGED <<boc, message, transactions, i, txHash, exitCode,
                   fetchCalls, fetchStatus, examined, hashed>>

\* A fetch that is tried again when the call rejects
FetchRetrying ==
    /\ pc = "HashComputed"
    /\ fetchCalls' = fetchCalls + 1
    /\ \/ /\ fetchStatus' = "failed"
          /\ UNCHANGED <<transactions, pc, report, ret>>
       \/ \E txs \in TxLists :
            /\ fetchStatus' = "ok"
            /\ transactions' = txs
            /\ pc' = "Fetched"
            /\ UNCHANGED <<report, ret>>
    /\ UNCHANGED <<boc, message, targetAddress, normalizedHash, i, txHash,
                   exitCode, targetHashCalls, examined, hashed>>

\* A fetch that may start as soon as the message is decoded
FetchBeforeHash ==
    /\ pc \in {"Decoded", "HashComputed"}
    /\ fetchCalls' = fetchCalls + 1
    /\ \/ /\ fetchStatus' = "failed"
          /\ Throw(<<"getTransactions failed", "">>)
          /\ UNCHANGED transactions
       \/ \E txs \in TxLists :
            /\ fetchStatus' = "ok"
            /\ transactions' = txs
            /\ pc' = "Fetched"
            /\ UNCHANGED <<report, ret>>
    /\ UNCHANGED <<boc, message, targetAddress, normalizedHash, i, txHash,
                   exitCode, targetHashCalls, examined, hashed>>

\* lines 141-159: the one await; the call rejects or resolves to a list
Fetch ==
    /\ pc = "HashComputed"
    /\ fetchCalls' = fetchCalls + 1
    /\ \/ /\ fetchStatus' = "failed"
          /\ Throw(<<"getTransactions failed", "">>)
          /\ UNCHANGED transactions
       \/ \E txs \in TxLists :
            /\ fetchStatus' = "ok"
            /\ transactions' = txs
            /\ pc' = "Fetched"
            /\ UNCHANGED <<report, ret>>
    /\ UNCHANGED <<boc, message, targetAddress, normalizedHash, i, txHash,
                   exitCode, targetHashCalls, examined, hashed>>

\* An empty list treated as a failure
CheckEmptyThrows ==
    /\ pc = "Fetched"
    /\ IF Len(transactions) = 0
       THEN Throw(<<"No transactions found", "">>) /\ UNCHANGED i
       ELSE /\ pc' = "Searching"
            /\ i' = 0
            /\ UNCHANGED <<report, ret>>
    /\ UNCHANGED <<boc, message, targetAddress, normalizedHash, transactions,
                   txHash, exitCode, fetchCalls, fetchStatus,
                   targetHashCalls, examined, hashed>>

\* lines 161-169: an empty list returns false, otherwise the loop starts
CheckEmpty ==
    /\ pc = "Fetched"
    /\ IF Len(transactions) = 0
       THEN /\ pc' = "NotFound"
            /\ report' = [kind |-> "empty", position |-> 0, msg |-> NoError]
            /\ ret' = "false"
            /\ UNCHANGED i
       ELSE /\ pc' = "Searching"
            /\ i' = 0
            /\ UNCHANGED <<report, ret>>
    /\ UNCHANGED <<boc, message, targetAddress, normalizedHash, transactions,
                   txHash, exitCode, fetchCalls, fetchStatus,
                   targetHashCalls, examined, hashed>>

\* A loop that notes a match but does not return on it
ScanStepNoReturn ==
    /\ pc = "Searching"
    /\ i < Len(transactions)
    /\ examined' = examined + 1
    /\ LET tx == transactions[i + 1] IN
       IF SkipTx(tx)
       THEN /\ i' = i + 1
            /\ UNCHANGED <<pc, report, ret, txHash, hashed>>
       ELSE LET r == getNormalizedExtMessageHash(tx.inMessage) IN
            /\ hashed' = hashed \cup {i + 1}
            /\ IF ~r.ok
               THEN Throw(r.err) /\ UNCHANGED <<i, txHash>>
               ELSE /\ txHash' = r.hash
                    /\ i' = i + 1
                    /\ UNCHANGED <<pc, report, ret>>
    /\ UNCHANGED <<boc, message, targetAddress, normalizedHash, transactions,
                   exitCode, fetchCalls, fetchStatus, targetHashCalls>>

\* lines 169-205: one iteration of the loop
ScanStep ==
    /\ pc = "Searching"
    /\ i < Len(transactions)
    /\ examined' = examined + 1
    /\ LET tx == transactions[i + 1] IN
       IF SkipTx(tx)
       THEN /\ i' = i + 1
            /\ UNCHANGED <<pc, report, ret, txHash, hashed>>
       ELSE LET r == getNormalizedExtMessageHash(tx.inMessage) IN
            /\ hashed' = hashed \cup {i + 1}
            /\ IF ~r.ok
               THEN Throw(r.err) /\ UNCHANGED <<i, txHash>>
               ELSE /\ txHash' = r.hash
                    /\ IF r.hash = normalizedHash
                       THEN /\ pc' = "Found"
                            /\ report' = [kind |-> "found",
                                          position |-> PositionOf(i),
                                          msg |-> NoError]
                            /\ ret' = "true"
                            /\ UNCHANGED i
                       ELSE /\ i' = i + 1
                            /\ UNCHANGED <<pc, report, ret>>
    /\ UNCHANGED <<boc, message, targetAddress, normalizedHash, transactions,
                   exitCode, fetchCalls, fetchStatus, targetHashCalls>>

\* lines 207-213: the loop ran out
ScanEnd ==
    /\ pc = "Searching"
    /\ i >= Len(transactions)
    /\ pc' = "NotFound"
    /\ report' = [kind |-> "notfound", position |-> 0, msg |-> NoError]
    /\ ret' = "false"
    /\ UNCHANGED <<boc, message, targetAddress, normalizedHash, transactions,
                   i, txHash, exitCode, fetchCalls, fetchStatus,
                   targetHashCalls, examined, hashed>>

\* lines 228-229: process.exit(found ? 0 : 1)
Exit ==
    /\ pc \in {"Found", "NotFound", "Error"}
    /\ exitCode = -1
    /\ exitCode' = IF ret = "true" THEN 0 ELSE 1
    /\ UNCHANGED <<boc, pc, message, targetAddress, normalizedHash,
                   transactions, i, txHash, report, ret, fetchCalls,
                   fetchStatus, targetHashCalls, examined, hashed>>

Next ==
    \/ ParseBoc
    \/ ComputeTargetHash
    \/ Fetch
    \/ CheckEmpty
    \/ ScanStep
    \/ ScanEnd
    \/ Exit

Spec == Init /\ [][Next]_vars

\* ------------------------------------------------------------- properties
Terminal == pc \in {"Found", "NotFound", "Error"}

\* The structured outcome the terminal console line stands for
Outcome ==
    CASE report.kind = "found" -> "Found"
      [] report.kind \in {"empty", "notfound"} -> "NotFound"
      [] report.kind = "error" -> "Error"
      [] OTHER -> "Running"

\* Positions of the fetched list whose inbound message is external-in and
\* has the target's normalized hash
MatchSet ==
    {k \in 1..Len(transactions) :
        /\ transactions[k].inMessage.type = "external-in"
        /\ getNormalizedExtMessageHash(transactions[k].inMessage).hash
              = normalizedHash}

Least(S) == CHOOSE k \in S : \A j \in S : k <= j
Greatest(S) == CHOOSE k \in S : \A j \in S : k >= j

\* C1: client.getTransactions is invoked at most once in a run, whatever
\* the input, the fetched list and the outcome.
C1_AtMostOneFetch == fetchCalls <= 1

C1_Witness ==
    /\ pc = "NotFound"
    /\ fetchCalls = 1
    /\ Cardinality(hashed) >= 2
    /\ exitCode = 1

\* C2: the run ends Found(p) exactly when p is the position of the first
\* transaction, in fetch order, whose inbound message is external-in with
\* the target's normalized hash; it ends NotFound exactly when the fetch
\* succeeded and no transaction is such a match.
C2_FirstMatchWins ==
    Terminal =>
        /\ Outcome = "Found" <=> (fetchStatus = "ok" /\ MatchSet # {})
        /\ Outcome = "Found" => report.position = Least(MatchSet)
        /\ Outcome = "NotFound" <=> (fetchStatus = "ok" /\ MatchSet = {})

C2_Witness ==
    /\ pc = "Found"
    /\ report.position = 2
    /\ Cardinality(MatchSet) >= 2

\* C3: when decoding the container or loading its root message fails, the
\* run ends with a decode error and no fetch was made.
C3_DecodeErrorNoFetch ==
    boc.kind \in {"malformed", "badroot"} =>
        /\ fetchCalls = 0
        /\ pc # "Start" =>
              /\ pc = "Error"
              /\ Outcome = "Error"
              /\ report.msg \in {<<"Cell.fromBase64 failed", "">>,
                                 <<"loadMessage failed", "">>}

C3_Witness ==
    /\ boc.kind = "badroot"
    /\ pc = "Error"
    /\ exitCode = 1

\* C4: when the root message is not external-in, the run ends with an
\* error that names the actual variant and no fetch was made.
C4_NotExtInErrorNoFetch ==
    (boc.kind = "message" /\ boc.msg.type # "external-in") =>
        /\ fetchCalls = 0
        /\ pc \notin {"Start", "Decoded"} =>
              /\ pc = "Error"
              /\ Outcome = "Error"
              /\ report.msg[2] = boc.msg.type

C4_Witness ==
    /\ boc.kind = "message"
    /\ boc.msg.type = "internal"
    /\ pc = "Error"
    /\ exitCode = 1

\* C5: the value returned to the caller tells the outcomes apart: the
\* value false (exit status 1) that a NotFound run returns is not also
\* what a run ending in a decode, message-type or fetch error returns.
C5_DistinctOutcomes ==
    (Terminal /\ ret = "false") => Outcome = "NotFound"

\* C6: the normalized hash does not depend on src, importFee and init: a
\* candidate's hash equals the target hash whenever the two external-in
\* messages agree on destination and body.
C6_HashIgnoresSrcFeeInit ==
    (hashed # {} /\ pc # "Error") =>
        LET m == transactions[Greatest(hashed)].inMessage IN
        (m.dest = message.dest /\ m.body = message.body)
            => txHash = normalizedHash

C6_Witness ==
    /\ pc = "Found"
    /\ LET m == transactions[report.position].inMessage IN
          /\ m.src # message.src
          /\ m.importFee # message.importFee
          /\ m.init # message.init

\* C7: a fetch that succeeds with an empty list ends the run NotFound,
\* with no error reported and no candidate examined or hashed.
C7_EmptyListNotFound ==
    (fetchStatus = "ok" /\ Len(transactions) = 0 /\ pc # "Fetched") =>
        /\ pc = "NotFound"
        /\ Outcome = "NotFound"
        /\ examined = 0
        /\ hashed = {}

C7_Witness ==
    /\ fetchStatus = "ok"
    /\ Len(transactions) = 0
    /\ pc = "NotFound"
    /\ exitCode = 1

\* C8: candidates are examined in list order and the scan stops at the
\* first match: at the end the number examined is the position of the
\* first match, or the length of the list when nothing matches.
C8_ExaminedCount ==
    /\ pc = "Searching" => examined = i
    /\ (Terminal /\ fetchStatus = "ok") =>
          examined = IF MatchSet # {} THEN Least(MatchSet)
                     ELSE Len(transactions)
    /\ pc = "Found" => examined = report.position

C8_Witness ==
    /\ pc = "Found"
    /\ Len(transactions) >= 3
    /\ MatchSet = {Len(transactions)}
    /\ report.position = Len(transactions)
    /\ examined = Len(transactions)

\* C9: a transaction whose inbound message is absent or not external-in is
\* never hashed, is never the match reported, and raises no error: after a
\* successful fetch the run cannot end in Error, and the scan goes on past
\* such transactions.
C9_SkippedNeverHashed ==
    /\ \A k \in hashed : transactions[k].inMessage.type = "external-in"
    /\ fetchStatus = "ok" => pc # "Error"
    /\ pc = "Found" =>
          transactions[report.position].inMessage.type = "external-in"
    /\ (pc = "NotFound" /\ report.kind = "notfound") =>
          examined = Len(transactions)

C9_Witness ==
    /\ pc = "Found"
    /\ report.position = 3
    /\ transactions[1].inMessage = NoMessage
    /\ transactions[2].inMessage.type = "internal"
    /\ hashed = {3}

Rank(p) ==
    CASE p = "Start" -> 0
      [] p = "Decoded" -> 1
      [] p = "HashComputed" -> 2
      [] p = "Fetched" -> 3
      [] p = "Searching" -> 4
      [] OTHER -> 5

C10_StateOrder ==
    /\ targetHashCalls <= 1
    /\ Rank(pc) >= 2 /\ pc # "Error" => targetHashCalls = 1
    /\ fetchCalls > 0 => targetHashCalls = 1 /\ normalizedHash # NoHash

C10_StepOrder ==
    /\ pc' # pc =>
          /\ Rank(pc') > Rank(pc)
          /\ pc' \notin {"Error", "NotFound"} => Rank(pc') = Rank(pc) + 1
    /\ targetHashCalls' # targetHashCalls => pc = "Decoded" /\ fetchCalls = 0
    /\ fetchCalls' # fetchCalls => pc = "HashComputed" /\ targetHashCalls = 1

\* C10: the steps run in the order Start, Decoded, HashComputed, Fetched,
\* Searching, then Found or NotFound, none revisited: the target hash is
\* computed once, before the fetch, the fetch happens only after decoding
\* and hashing succeeded, and the scan does not recompute the target hash.
C10_LinearOrder == []C10_StateOrder /\ [][C10_StepOrder]_vars

C10_Witness ==
    /\ pc = "Found"
    /\ targetHashCalls = 1
    /\ fetchCalls = 1
    /\ Cardinality(hashed) >= 2

====
